---- MODULE Spec2Model ----
(***************************************************************************)
(* chip8-rs: the CHIP-8 interpreter of src/src/chip8.rs, driven by the     *)
(* host loop of src/src/main.rs.  The machine state is the Chip8 struct;   *)
(* the host calls set_key, update (one fetch/decode/execute cycle) and     *)
(* draw (one 60 Hz frame tick) in any order.  A Rust panic (index out of   *)
(* bounds, unwrap of None, checked arithmetic overflow) ends the process:  *)
(* `panicked` becomes TRUE and nothing is enabled any more.                *)
(***************************************************************************)
EXTENDS Integers, Sequences, FiniteSets, TLC

\* ------------------------------------------------------------- constants

DISPLAY_WIDTH == 64
DISPLAY_HEIGHT == 32
MEMORY_SIZE == 4096
FONT_BASE == \h050
ROM_BASE == \h200

FONT ==
  << \hF0, \h90, \h90, \h90, \hF0,
     \h20, \h60, \h20, \h20, \h70,
     \hF0, \h10, \hF0, \h80, \hF0,
     \hF0, \h10, \hF0, \h10, \hF0,
     \h90, \h90, \hF0, \h10, \h10,
     \hF0, \h80, \hF0, \h10, \hF0,
     \hF0, \h80, \hF0, \h90, \hF0,
     \hF0, \h10, \h20, \h40, \h40,
     \hF0, \h90, \hF0, \h90, \hF0,
     \hF0, \h90, \hF0, \h10, \hF0,
     \hF0, \h90, \hF0, \h90, \h90,
     \hE0, \h90, \hE0, \h90, \hE0,
     \hF0, \h80, \h80, \h80, \hF0,
     \hE0, \h90, \h90, \h90, \hE0,
     \hF0, \h80, \h80, \h80, \hF0,
     \hF0, \h80, \hF0, \h80, \h80 >>

\* ---------------------------------------------------------------- bounds

\* update() is called at most MaxCycles times in a run.
MaxCycles == 7

\* Cycles of a run of the subroutine programs: seventeen nested calls and a
\* return.
MaxCallCycles == 18

\* ------------------------------------------------------ machine integers

U8 == 2 ^ 8
U16 == 2 ^ 16

Bit(v, k) == (v \div (2 ^ k)) % 2

\* u8 bitwise operators (&, |, ^), bit by bit.
BitAnd(a, b) ==
  LET t(k) == Bit(a, k) * Bit(b, k) * (2 ^ k)
  IN  t(0) + t(1) + t(2) + t(3) + t(4) + t(5) + t(6) + t(7)

BitOr(a, b) ==
  LET t(k) == (IF Bit(a, k) + Bit(b, k) > 0 THEN 1 ELSE 0) * (2 ^ k)
  IN  t(0) + t(1) + t(2) + t(3) + t(4) + t(5) + t(6) + t(7)

BitXor(a, b) ==
  LET t(k) == ((Bit(a, k) + Bit(b, k)) % 2) * (2 ^ k)
  IN  t(0) + t(1) + t(2) + t(3) + t(4) + t(5) + t(6) + t(7)

\* ----------------------------------------------------------------- state

VARIABLES
  display,         \* [[bool; 64]; 32], display[y][x]
  memory,          \* [u8; 4096]
  stack,           \* Vec<u16>
  pc,              \* u16
  registers,       \* [u8; 16]
  index_register,  \* u16
  delay_timer,     \* u8
  sound_timer,     \* u8
  input,           \* [bool; 16]
  panicked,        \* the process has panicked
  called,          \* the entry point the host called last
  instruction,     \* the word the last update() fetched
  cycles,          \* number of update() calls so far
  last_draw,       \* display and origin at the start of the last DXYN
  last_store,      \* registers and index register at the start of the last
                   \* FX55, while memory has not been written since
  calls,           \* number of 2NNN executed
  returns          \* number of 00EE executed

vars == << display, memory, stack, pc, registers, index_register,
           delay_timer, sound_timer, input, panicked, called, instruction,
           cycles, last_draw, last_store, calls, returns >>

\* The Chip8 struct as one value.
Self ==
  [ display |-> display, memory |-> memory, stack |-> stack, pc |-> pc,
    registers |-> registers, index_register |-> index_register,
    delay_timer |-> delay_timer, sound_timer |-> sound_timer,
    input |-> input, panicked |-> panicked ]

Becomes(c) ==
  /\ display' = c.display
  /\ memory' = c.memory
  /\ stack' = c.stack
  /\ pc' = c.pc
  /\ registers' = c.registers
  /\ index_register' = c.index_register
  /\ delay_timer' = c.delay_timer
  /\ sound_timer' = c.sound_timer
  /\ input' = c.input
  /\ panicked' = c.panicked

Panic(c) == [c EXCEPT !.panicked = TRUE]

\* The element of a one-element set.  A loop body is written
\* Only({ rest(c1) : c1 \in {step(c)} }): step(c) is evaluated to a value
\* before the rest of the loop runs on it, as in the sequential code.
Only(S) == CHOOSE v \in S : TRUE

\* load_to_memory: data is a sequence of bytes, copied to start_pos..
load_to_memory(c, data, start_pos) ==
  IF start_pos + Len(data) > MEMORY_SIZE
  THEN Panic(c)
  ELSE [c EXCEPT !.memory =
          [a \in 0 .. MEMORY_SIZE - 1 |->
             IF a >= start_pos /\ a < start_pos + Len(data)
             THEN data[a - start_pos + 1]
             ELSE c.memory[a]]]

\* Chip8::new
new ==
  load_to_memory(
    [ display |-> [y \in 0 .. DISPLAY_HEIGHT - 1 |->
                     [x \in 0 .. DISPLAY_WIDTH - 1 |-> FALSE]],
      memory |-> [a \in 0 .. MEMORY_SIZE - 1 |-> 0],
      stack |-> << >>,
      pc |-> ROM_BASE,
      registers |-> [r \in 0 .. 15 |-> 0],
      index_register |-> 0,
      delay_timer |-> 0,
      sound_timer |-> 0,
      input |-> [k \in 0 .. 15 |-> FALSE],
      panicked |-> FALSE ],
    FONT, FONT_BASE)

\* ---------------------------------------------------------------- pixels

\* Option<bool>: << >> is None, << v >> is Some(v).
get_pixel(c, x, y) ==
  IF x < DISPLAY_WIDTH /\ y < DISPLAY_HEIGHT
  THEN << c.display[y][x] >>
  ELSE << >>

set_pixel(c, x, y, value) ==
  IF x < DISPLAY_WIDTH /\ y < DISPLAY_HEIGHT
  THEN [c EXCEPT !.display[y][x] = value]
  ELSE c

\* A faulty clear_screen: the loop bounds swapped (i runs over the width, j
\* over the height, set_pixel(j, i) guards the rest), so only the columns
\* below DISPLAY_HEIGHT are cleared.
clear_screen_swapped(c) ==
  [c EXCEPT !.display =
     [i \in DOMAIN c.display |->
        [j \in DOMAIN c.display[i] |->
           IF i \in 0 .. DISPLAY_HEIGHT - 1 /\ j \in 0 .. DISPLAY_HEIGHT - 1
           THEN FALSE
           ELSE c.display[i][j]]]]

\* for i in 0..DISPLAY_HEIGHT { for j in 0..DISPLAY_WIDTH { set_pixel(j, i, false) } }
clear_screen(c) ==
  [c EXCEPT !.display =
     [i \in DOMAIN c.display |->
        [j \in DOMAIN c.display[i] |->
           IF i \in 0 .. DISPLAY_HEIGHT - 1 /\ j \in 0 .. DISPLAY_WIDTH - 1
           THEN FALSE
           ELSE c.display[i][j]]]]

\* ((byte >> (7 - j)) & 1) == 1
sprite_value(byte, j) == Bit(byte, 7 - j) = 1

\* A faulty draw_bit: the sprite is OR-ed onto the screen instead of XOR-ed.
draw_bit_or(c, px, py, byte, j) ==
  IF sprite_value(byte, j)
  THEN LET screen_value == get_pixel(c, px, py)
       IN  IF screen_value # << >>
           THEN LET c1 == set_pixel(c, px, py, TRUE)
                IN  IF screen_value[1]
                    THEN [c1 EXCEPT !.registers[15] = 1]
                    ELSE c1
           ELSE c
  ELSE c

\* A faulty draw_bit: the pixel coordinate wraps around the screen edge.
draw_bit_wrap(c, px, py, byte, j) ==
  IF sprite_value(byte, j)
  THEN LET wx == px % DISPLAY_WIDTH
           wy == py % DISPLAY_HEIGHT
           screen_value == get_pixel(c, wx, wy)
       IN  IF screen_value # << >>
           THEN LET c1 == set_pixel(c, wx, wy, ~screen_value[1])
                IN  IF screen_value[1]
                    THEN [c1 EXCEPT !.registers[15] = 1]
                    ELSE c1
           ELSE c
  ELSE c

\* One sprite pixel: flip the screen pixel if the sprite bit is set and the
\* pixel is on the screen; flag a collision if it was lit.
draw_bit(c, px, py, byte, j) ==
  IF sprite_value(byte, j)
  THEN LET screen_value == get_pixel(c, px, py)
       IN  IF screen_value # << >>
           THEN LET c1 == set_pixel(c, px, py, ~screen_value[1])
                IN  IF screen_value[1]
                    THEN [c1 EXCEPT !.registers[15] = 1]
                    ELSE c1
           ELSE c
  ELSE c

\* The inner loop of draw_sprite, columns j..7 of one row.
RECURSIVE draw_row(_, _, _, _, _)
draw_row(c, x, py, byte, j) ==
  IF j = 8 THEN c
  ELSE IF x + j > DISPLAY_WIDTH THEN c
  ELSE Only({ draw_row(c1, x, py, byte, j + 1) :
                c1 \in {draw_bit(c, x + j, py, byte, j)} })

\* The outer loop of draw_sprite, rows i..height-1; index = index_register + i.
RECURSIVE draw_rows(_, _, _, _, _, _)
draw_rows(c, x, y, height, i, index) ==
  IF i = height THEN c
  ELSE IF y + i > DISPLAY_HEIGHT THEN c
  ELSE IF index >= MEMORY_SIZE THEN Panic(c)
  ELSE Only({ draw_rows(c1, x, y, height, i + 1, index + 1) :
                c1 \in {draw_row(c, x, y + i, c.memory[index], 0)} })

\* A faulty draw_sprite: VF is not reset before drawing.
draw_sprite_keep_vf(c, x, y, height) ==
  draw_rows(c, x, y, height, 0, c.index_register)

draw_sprite(c, x, y, height) ==
  draw_rows([c EXCEPT !.registers[15] = 0], x, y, height, 0, c.index_register)

\* ------------------------------------------------------- opcode handlers
\* Each handler takes the machine after the fetch (pc already advanced).
\* `wrap` is the build: TRUE when arithmetic overflow wraps (release),
\* FALSE when it panics (debug).

skip(c) == [c EXCEPT !.pc = @ + 2]

\* A faulty 00EE: the oldest return address is taken.
op_00EE_fifo(c) ==
  IF c.stack = << >>
  THEN Panic(c)
  ELSE [c EXCEPT !.pc = c.stack[1], !.stack = Tail(c.stack)]

op_00EE(c) ==
  IF c.stack = << >>
  THEN Panic(c)
  ELSE [c EXCEPT !.pc = c.stack[Len(c.stack)],
                 !.stack = SubSeq(c.stack, 1, Len(c.stack) - 1)]

op_0(c, instruction_word) ==
  IF instruction_word = \h00E0 THEN clear_screen(c)
  ELSE IF instruction_word = \h00EE THEN op_00EE(c)
  ELSE c

op_1NNN(c, n2n3n4) == [c EXCEPT !.pc = n2n3n4]

op_2NNN(c, n2n3n4) ==
  [c EXCEPT !.stack = Append(c.stack, c.pc), !.pc = n2n3n4]

op_3XNN(c, n2, n3n4) == IF c.registers[n2] = n3n4 THEN skip(c) ELSE c

op_4XNN(c, n2, n3n4) == IF c.registers[n2] # n3n4 THEN skip(c) ELSE c

op_5XY0(c, n2, n3) ==
  IF c.registers[n2] = c.registers[n3] THEN skip(c) ELSE c

op_6XNN(c, n2, n3n4) == [c EXCEPT !.registers[n2] = n3n4]

op_7XNN(c, n2, n3n4) ==
  [c EXCEPT !.registers[n2] = (c.registers[n2] + n3n4) % 256]

\* A u8 result that fits: the subtractions below are checked arithmetic in
\* a debug build.
in_u8(v) == v >= 0 /\ v < U8

\* A faulty 8XY4: the carry is reported from 255 on.
op_8XY4_early_carry(c, n2, n3) ==
  LET buffer == c.registers[n2] + c.registers[n3]
      r1 == [c.registers EXCEPT ![15] = IF buffer >= 255 THEN 1 ELSE 0]
  IN  [c EXCEPT !.registers = [r1 EXCEPT ![n2] = buffer % 256]]

op_8XY4(c, n2, n3) ==
  LET buffer == c.registers[n2] + c.registers[n3]
      r1 == [c.registers EXCEPT ![15] = IF buffer > 255 THEN 1 ELSE 0]
  IN  [c EXCEPT !.registers = [r1 EXCEPT ![n2] = buffer % 256]]

\* A faulty 8XY5: equal operands count as a borrow.
op_8XY5_strict(c, n2, n3) ==
  LET r == c.registers
  IN  IF r[n2] > r[n3]
      THEN LET r1 == [r EXCEPT ![n2] = r[n2] - r[n3]]
           IN  [c EXCEPT !.registers = [r1 EXCEPT ![15] = 1]]
      ELSE LET r1 == [r EXCEPT ![n2] = (255 - (r[n3] - r[n2]) + 1) % U8]
           IN  [c EXCEPT !.registers = [r1 EXCEPT ![15] = 0]]

op_8XY5(c, n2, n3) ==
  LET r == c.registers
  IN  IF r[n2] >= r[n3]
      THEN LET r1 == [r EXCEPT ![n2] = r[n2] - r[n3]]
           IN  [c EXCEPT !.registers = [r1 EXCEPT ![15] = 1]]
      ELSE IF ~in_u8(255 - (r[n3] - r[n2]) + 1) THEN Panic(c)
      ELSE LET r1 == [r EXCEPT ![n2] = 255 - (r[n3] - r[n2]) + 1]
           IN  [c EXCEPT !.registers = [r1 EXCEPT ![15] = 0]]

op_8XY6(c, n2) ==
  LET r1 == [c.registers EXCEPT ![15] = c.registers[n2] % 2]
  IN  [c EXCEPT !.registers = [r1 EXCEPT ![n2] = r1[n2] \div 2]]

\* A faulty 8XY7: the difference VY - VX is written to VX.
op_8XY7_into_vx(c, n2, n3) ==
  LET r == c.registers
      r1 == [r EXCEPT ![n2] = (r[n3] - r[n2] + U8) % U8]
  IN  [c EXCEPT !.registers =
                  [r1 EXCEPT ![15] = IF r[n3] >= r[n2] THEN 1 ELSE 0]]

op_8XY7(c, n2, n3) ==
  LET r == c.registers
  IN  IF r[n3] >= r[n2]
      THEN LET r1 == [r EXCEPT ![n3] = r[n3] - r[n2]]
           IN  [c EXCEPT !.registers = [r1 EXCEPT ![15] = 1]]
      ELSE IF ~in_u8(255 - (r[n2] - r[n3]) + 1) THEN Panic(c)
      ELSE LET r1 == [r EXCEPT ![n3] = 255 - (r[n2] - r[n3]) + 1]
           IN  [c EXCEPT !.registers = [r1 EXCEPT ![15] = 0]]

op_8XYE(c, n2) ==
  LET r1 == [c.registers EXCEPT ![15] = (c.registers[n2] \div 128) % 2]
  IN  [c EXCEPT !.registers = [r1 EXCEPT ![n2] = (r1[n2] * 2) % U8]]

op_8(c, n2, n3, n4) ==
  LET r == c.registers
  IN  CASE n4 = 0 -> [c EXCEPT !.registers[n2] = r[n3]]
        [] n4 = 1 -> [c EXCEPT !.registers[n2] = BitOr(r[n2], r[n3])]
        [] n4 = 2 -> [c EXCEPT !.registers[n2] = BitAnd(r[n2], r[n3])]
        [] n4 = 3 -> [c EXCEPT !.registers[n2] = BitXor(r[n2], r[n3])]
        [] n4 = 4 -> op_8XY4(c, n2, n3)
        [] n4 = 5 -> op_8XY5(c, n2, n3)
        [] n4 = 6 -> op_8XY6(c, n2)
        [] n4 = 7 -> op_8XY7(c, n2, n3)
        [] n4 = 14 -> op_8XYE(c, n2)
        [] OTHER -> c

op_9XY0(c, n2, n3) ==
  IF c.registers[n2] # c.registers[n3] THEN skip(c) ELSE c

op_ANNN(c, n2n3n4) == [c EXCEPT !.index_register = n2n3n4]

op_BNNN(c, n2n3n4) == [c EXCEPT !.pc = n2n3n4 + c.registers[0]]

\* random is (rng.next_u32() & 0b1111): any value 0..15.
op_CXNN(c, n2, n3n4, random) ==
  [c EXCEPT !.registers[n2] = BitAnd(random, n3n4)]

op_DXYN(c, n2, n3, n4) ==
  draw_sprite(c, c.registers[n2] % DISPLAY_WIDTH,
              c.registers[n3] % DISPLAY_HEIGHT, n4)

op_EX9E(c, n2) ==
  LET key == c.registers[n2]
  IN  IF key >= 16 THEN Panic(c)
      ELSE IF c.input[key] THEN skip(c) ELSE c

op_EXA1(c, n2) ==
  LET key == c.registers[n2]
  IN  IF key >= 16 THEN Panic(c)
      ELSE IF ~c.input[key] THEN skip(c) ELSE c

op_E(c, n2, n3n4) ==
  CASE n3n4 = \h9E -> op_EX9E(c, n2)
    [] n3n4 = \hA1 -> op_EXA1(c, n2)
    [] OTHER -> c

op_FX07(c, n2) == [c EXCEPT !.registers[n2] = c.delay_timer]

op_FX15(c, n2) == [c EXCEPT !.delay_timer = c.registers[n2]]

op_FX18(c, n2) == [c EXCEPT !.sound_timer = c.registers[n2]]

op_FX1E(c, n2, wrap) ==
  LET sum == c.index_register + c.registers[n2]
  IN  IF sum < U16 THEN [c EXCEPT !.index_register = sum]
      ELSE IF wrap THEN [c EXCEPT !.index_register = sum % U16]
      ELSE Panic(c)

\* for key in self.input { if key { break; } self.pc -= 2; }, from key k on.
RECURSIVE wait_key(_, _, _)
wait_key(c, k, wrap) ==
  IF k = 16 THEN c
  ELSE IF c.input[k] THEN c
  ELSE IF c.pc >= 2 THEN wait_key([c EXCEPT !.pc = @ - 2], k + 1, wrap)
  ELSE IF wrap THEN wait_key([c EXCEPT !.pc = @ - 2 + U16], k + 1, wrap)
  ELSE Panic(c)

op_FX0A(c, wrap) == wait_key(c, 0, wrap)

op_FX29(c, n2) ==
  LET char == BitAnd(c.registers[n2], 15)
  IN  [c EXCEPT !.index_register = c.memory[FONT_BASE + 5 * char]]

\* memory[index] = value, panicking when index is out of bounds.
store(c, index, value) ==
  IF c.panicked THEN c
  ELSE IF index >= MEMORY_SIZE THEN Panic(c)
  ELSE [c EXCEPT !.memory[index] = value]

\* A faulty FX33: the digits are stored ones first.
op_FX33_reversed(c, n2) ==
  LET num == c.registers[n2]
      index == c.index_register
      c1 == store(c, index, num % 10)
      c2 == store(c1, index + 1, (num \div 10) % 10)
  IN  store(c2, index + 2, (num \div 100) % 10)

op_FX33(c, n2) ==
  LET num == c.registers[n2]
      index == c.index_register
      c1 == store(c, index, (num \div 100) % 10)
      c2 == store(c1, index + 1, (num \div 10) % 10)
  IN  store(c2, index + 2, num % 10)

\* for i in 0..n2+1 { memory[(index_register + i) as usize] = registers[i] }
RECURSIVE store_registers(_, _, _, _)
store_registers(c, n2, i, wrap) ==
  IF i > n2 \/ c.panicked THEN c
  ELSE LET sum == c.index_register + i
       IN  IF sum >= U16 /\ ~wrap THEN Panic(c)
           ELSE store_registers(store(c, sum % U16, c.registers[i]),
                                n2, i + 1, wrap)

\* A faulty FX55: the loop stops before register X.
op_FX55_exclusive(c, n2, wrap) ==
  IF n2 = 0 THEN c ELSE store_registers(c, n2 - 1, 0, wrap)

op_FX55(c, n2, wrap) == store_registers(c, n2, 0, wrap)

\* for i in 0..n2+1 { registers[i] = memory[(index_register + i) as usize] }
RECURSIVE load_registers(_, _, _, _)
load_registers(c, n2, i, wrap) ==
  IF i > n2 THEN c
  ELSE LET sum == c.index_register + i
       IN  IF sum >= U16 /\ ~wrap THEN Panic(c)
           ELSE IF sum % U16 >= MEMORY_SIZE THEN Panic(c)
           ELSE load_registers(
                  [c EXCEPT !.registers[i] = c.memory[sum % U16]],
                  n2, i + 1, wrap)

op_FX65(c, n2, wrap) == load_registers(c, n2, 0, wrap)

op_F(c, n2, n3n4, wrap) ==
  CASE n3n4 = \h07 -> op_FX07(c, n2)
    [] n3n4 = \h15 -> op_FX15(c, n2)
    [] n3n4 = \h18 -> op_FX18(c, n2)
    [] n3n4 = \h1E -> op_FX1E(c, n2, wrap)
    [] n3n4 = \h0A -> op_FX0A(c, wrap)
    [] n3n4 = \h29 -> op_FX29(c, n2)
    [] n3n4 = \h33 -> op_FX33(c, n2)
    [] n3n4 = \h55 -> op_FX55(c, n2, wrap)
    [] n3n4 = \h65 -> op_FX65(c, n2, wrap)
    [] OTHER -> c

\* --------------------------------------------------------------- decoder

N1(w) == (w \div 4096) % 16
N2(w) == (w \div 256) % 16
N3(w) == (w \div 16) % 16
N4(w) == w % 16
N3N4(w) == w % 256
N2N3N4(w) == w % 4096

execute_instruction(c, w, random, wrap) ==
  LET n1 == N1(w)
      n2 == N2(w)
      n3 == N3(w)
      n4 == N4(w)
      n3n4 == N3N4(w)
      n2n3n4 == N2N3N4(w)
  IN  CASE n1 = 0 -> op_0(c, w)
        [] n1 = 1 -> op_1NNN(c, n2n3n4)
        [] n1 = 2 -> op_2NNN(c, n2n3n4)
        [] n1 = 3 -> op_3XNN(c, n2, n3n4)
        [] n1 = 4 -> op_4XNN(c, n2, n3n4)
        [] n1 = 5 -> op_5XY0(c, n2, n3)
        [] n1 = 6 -> op_6XNN(c, n2, n3n4)
        [] n1 = 7 -> op_7XNN(c, n2, n3n4)
        [] n1 = 8 -> op_8(c, n2, n3, n4)
        [] n1 = 9 -> op_9XY0(c, n2, n3)
        [] n1 = 10 -> op_ANNN(c, n2n3n4)
        [] n1 = 11 -> op_BNNN(c, n2n3n4)
        [] n1 = 12 -> op_CXNN(c, n2, n3n4, random)
        [] n1 = 13 -> op_DXYN(c, n2, n3, n4)
        [] n1 = 14 -> op_E(c, n2, n3n4)
        [] n1 = 15 -> op_F(c, n2, n3n4, wrap)

\* fetch_instruction: the word at pc, big-endian.
fetched(c) == c.memory[c.pc] * 256 + c.memory[c.pc + 1]

\* fetch_instruction panics on an index out of bounds.
fetch_panics(c) == c.pc >= MEMORY_SIZE \/ c.pc + 1 >= MEMORY_SIZE

fetch_instruction(c) == [c EXCEPT !.pc = @ + 2]

\* ------------------------------------------------------------ host inputs

\* The keys the host presses and releases: the first two and the last while
\* a program waits for a key, one key under the programs that read none.
WaitKeys == {0, 1, 15}
OneKey == {1}

\* A program file: instruction words laid out big-endian, two bytes each.
Assemble(words) ==
  [i \in 1 .. 2 * Len(words) |->
     IF i % 2 = 1 THEN words[(i + 1) \div 2] \div 256
                  ELSE words[i \div 2] % 256]

\* FX0A alone, after a register load, behind a run of 7001 reached by a jump
\* (a rewind lands inside the run), and written to address 0 by FX55.
KeyRoms ==
  { << \hF00A, \h6001 >>,
    << \h6A07, \hFA0A, \h6001 >>,
    << \h1220, \h7001, \h7001, \h7001, \h7001, \h7001, \h7001, \h7001,
       \h7001, \h7001, \h7001, \h7001, \h7001, \h7001, \h7001, \h7001,
       \hF00A, \h6B01 >>,
    << \h60F0, \h610A, \hA000, \hF155, \h1000 >> }

\* 6Xvv; FX29; D125: a digit loaded into VX, its glyph looked up and drawn.
FontRoms ==
  { << \h6000 + X * 256 + vv, \hF029 + X * 256, \hD125 >> :
      X \in {0, 7, 15}, vv \in {0, 1, 9, 10, 15, 16, 255} }

\* Words matching no opcode pattern of the instruction table.
UnlistedWords ==
  { \h0000, \h0123, \h00E1, \h00EF, \h0FFF,
    \h5011, \h501F, \h9011, \h901F,
    \h8018, \h801D, \h801F,
    \hE000, \hE09F, \hE1A0,
    \hF000, \hF00B, \hF134, \hF1FF }

\* An unlisted word on a fresh machine (V0 = V1), and after a setup that
\* leaves V0 # V1, a running delay timer, a glyph on the screen, a return
\* address on the stack and a non-zero index register.
NopRoms ==
  { << w >> : w \in UnlistedWords }
  \cup { << \h6102, \hF115, \hA050, \hD015, \h220A, w >> : w \in UnlistedWords }

\* 60vv; F015; 61uu; F118; F207; F015: both timers set from registers, the
\* delay timer read back and set again.  60FF; F015: the delay timer set to
\* its largest value.
TimerRoms ==
  { << \h6000 + vv, \hF015, \h6100 + uu, \hF118, \hF207, \hF015 >> :
      vv \in {0, 1, 3}, uu \in {0, 2} }
  \cup { << \h60FF, \hF015 >> }

\* 61xx; 62yy; Annn; D12N; 00E0; D12N; D12N: a sprite of height N at nnn
\* drawn at (xx mod 64, yy mod 32), cleared, and drawn twice again.
SpriteRoms ==
  { << \h6100 + xx, \h6200 + yy, \hA000 + nnn,
       \hD120 + N, \h00E0, \hD120 + N, \hD120 + N >> :
      xx \in {0, 59, 63, 200}, yy \in {0, 29, 33},
      nnn \in {\h050, \h000, \h200, \hFFE}, N \in {0, 5, 15} }

\* Draws that overlap an earlier, different draw; draws whose origin register
\* is VF itself; a clear after a collision; the same draw three times.
OverlapRoms ==
  { << \hA050, \hD005, \h6002, \hD005, \h00E0 >>,
    << \hA050, \hD005, \hA055, \hD005, \hD005, \h00E0 >>,
    << \h6F05, \h6203, \hA050, \hDF25, \hDF25 >>,
    << \h6F3F, \h613E, \hA050, \hD1F5, \hD1F5, \hD1F5 >>,
    << \hA050, \hD005, \hD005, \h00E0 >>,
    << \hA050, \hD005, \hD005, \hD005, \h00E0 >> }

DrawRoms == SpriteRoms \cup OverlapRoms

\* Operand bytes: the ends of the byte, equal operands, 200 + 100, 10 + 5 and
\* 5 - 10.
Operands == {0, 1, 5, 10, 100, 200, 255}

\* VX and VY loaded by 6XNN (VY last), then one 8XYn.
AluRoms(n4, pairs) ==
  { << \h6000 + p[1] * 256 + a, \h6000 + p[2] * 256 + b,
       \h8000 + p[1] * 256 + p[2] * 16 + n4 >> :
      p \in pairs, a \in Operands, b \in Operands }

\* 8XY4 on two registers, on one register twice, with VF as VY and as VX.
AddRoms == AluRoms(4, { <<1, 2>>, <<2, 2>>, <<0, 15>>, <<15, 1>> })

\* 8XY5 on two registers, on one register twice, with VF as VY and as VX.
SubRoms == AluRoms(5, { <<1, 2>>, <<2, 2>>, <<0, 15>>, <<15, 1>> })

\* 8XY7 on two registers, on one register twice, with VF as VX and as VY.
SubnRoms == AluRoms(7, { <<1, 2>>, <<2, 2>>, <<15, 1>>, <<1, 15>> })

\* VX loaded with a key number or with a byte above 15, then EX9E or EXA1.
SkipKeyRoms ==
  { << \h6000 + x * 256 + v, \hE000 + x * 256 + nn >> :
      x \in {0, 15}, v \in {0, 1, 15, 16, 255}, nn \in {\h9E, \hA1} }

\* A register loaded, the index register set, then FX33: every byte value
\* stored at 0x300, and two values at the ends of memory, over the program
\* itself and where the digits do not fit.
BcdRoms ==
  { << \h6000 + v, \hA300, \hF033 >> : v \in 0 .. 255 }
    \cup { << \h6F00 + v, \hA000 + nnn, \hFF33 >> :
             v \in {157, 255}, nnn \in {\h000, \h200, \hFFD, \hFFE} }

\* Registers loaded, the index register set, FX55, the registers overwritten,
\* then FX65 with the same X: X = 0; X = 1 with V2 rewritten above it; X = F
\* ending at the last byte of memory; X = 1 over the program's own bytes; and
\* X = F running past the end of memory.
StoreLoadRoms ==
  { << \h6000 + a, \hA300, \hF055, \h6000 + b, \hF065 >> :
      a \in {0, 255}, b \in {7, 255} }
    \cup { << \h6000 + a, \h6200 + a, \hA000 + nnn, \hF155, \h6200 + b,
              \h6000 + b, \hF165 >> :
             a \in {1, 255}, b \in {0, 9}, nnn \in {\h300, \h200} }
    \cup { << \h6F00 + a, \h6000 + a, \hA000 + nnn, \hFF55, \h6F00 + b,
              \h6000 + b, \hFF65 >> :
             a \in {1, 255}, b \in {0, 9}, nnn \in {\hFF0, \hFF8} }

\* One CXNN, into V0 and into VF, under masks with no bit, the low nibble,
\* the high nibble, every bit, and mixed bits.
RandomRoms ==
  { << \hC000 + x * 256 + nn >> :
      x \in {0, 15}, nn \in {\h00, \h0F, \hF0, \hFF, \hA5, \h3C} }

\* Seventeen calls, each to the word after it, then 00EE.
CallChain ==
  [k \in 1 .. 18 |-> IF k <= 17 THEN \h2000 + ROM_BASE + 2 * k ELSE \h00EE]

\* Subroutine programs: the chain of calls; a call whose subroutine calls
\* another, both returning; a call of itself; 00EE on the empty stack; and a
\* subroutine called twice.
StackRoms ==
  { CallChain,
    << \h2206, \h6001, \h1204, \h220A, \h00EE, \h00EE >>,
    << \h2200 >>,
    << \h00EE >>,
    << \h2204, \h2204, \h00EE >> }

\* Programs that move pc or the index register to the end of memory: a jump
\* to the last byte and to the last word, BNNN with V0 = 255, FX1E from 0xFFF,
\* and FX33, FX55, FX65 and DXYN with the index register at the last bytes;
\* and two that stay inside memory.
MemoryRoms ==
  { << \h1FFF >>,
    << \h1FFE >>,
    << \h60FF, \hBFFF >>,
    << \h60FF, \hAFFF, \hF01E, \hF065 >>,
    << \hAFFE, \hF033 >>,
    << \hAFF8, \hFF55 >>,
    << \hAFF8, \hFF65 >>,
    << \hAFFF, \hD002 >>,
    << \hA300, \hF033, \hF155, \hF165, \hD005, \h1200 >>,
    << \h1200 >> }

\* The five flag-producing opcodes on two registers and with VF as VX, as VY
\* and as both.
FlagRoms ==
  { << \h6000 + p[1] * 256 + a, \h6000 + p[2] * 256 + b,
       \h8000 + p[1] * 256 + p[2] * 16 + n4 >> :
      n4 \in {4, 5, 6, 7, 14},
      p \in { <<1, 2>>, <<15, 1>>, <<1, 15>>, <<15, 15>> },
      a \in {1, 3, 200}, b \in {1, 3, 200} }

\* ------------------------------------------------------------------ init

blank_store ==
  [ stored |-> FALSE, registers |-> new.registers, index |-> 0, x |-> 0 ]

blank_draw ==
  [ drawn |-> FALSE, display |-> new.display, x |-> 0, y |-> 0 ]

\* main: Chip8::new(), then the program file loaded at 0x200.
InitWith(roms) ==
  \E rom \in roms :
    \E c \in {load_to_memory(new, Assemble(rom), ROM_BASE)} :
        /\ display = c.display
        /\ memory = c.memory
        /\ stack = c.stack
        /\ pc = c.pc
        /\ registers = c.registers
        /\ index_register = c.index_register
        /\ delay_timer = c.delay_timer
        /\ sound_timer = c.sound_timer
        /\ input = c.input
        /\ panicked = c.panicked
        /\ called = "new"
        /\ instruction = 0
        /\ cycles = 0
        /\ last_draw = blank_draw
        /\ last_store = blank_store
        /\ calls = 0
        /\ returns = 0

\* --------------------------------------------------------------- actions

\* set_key(key, value)
set_key(c, key, value) ==
  IF key >= 16 THEN Panic(c) ELSE [c EXCEPT !.input[key] = value]

SetKey(keys) ==
  /\ ~panicked
  /\ \E key \in keys, value \in BOOLEAN :
       /\ input[key] # value
       /\ \E c \in {set_key(Self, key, value)} : Becomes(c)
  /\ called' = "set_key"
  /\ UNCHANGED << instruction, cycles, last_draw, last_store, calls, returns >>

\* A faulty random source: a whole byte.
Randoms_byte(w) == IF N1(w) = 12 THEN 0 .. 255 ELSE {0}

\* The outcomes of the random source and of the build that an instruction
\* can depend on.
Randoms(w) == IF N1(w) = 12 THEN 0 .. 15 ELSE {0}
Builds(w) == IF N1(w) = 15 THEN BOOLEAN ELSE {TRUE}

\* A faulty draw: the timers are decremented without the > 0 test (u8,
\* wrapping).
draw_unguarded(c) ==
  [c EXCEPT !.delay_timer = (@ + U8 - 1) % U8,
            !.sound_timer = (@ + U8 - 1) % U8]

\* draw(): one frame tick.
draw(c) ==
  LET c1 == IF c.delay_timer > 0 THEN [c EXCEPT !.delay_timer = @ - 1] ELSE c
  IN  IF c1.sound_timer > 0 THEN [c1 EXCEPT !.sound_timer = @ - 1] ELSE c1

\* A faulty update: the timers are ticked by the instruction clock.
update_ticking(c, random, wrap) ==
  IF fetch_panics(c) THEN Panic(c)
  ELSE draw(execute_instruction(fetch_instruction(c), fetched(c), random, wrap))

\* update(): fetch_instruction, then execute_instruction.
update(c, random, wrap) ==
  IF fetch_panics(c) THEN Panic(c)
  ELSE execute_instruction(fetch_instruction(c), fetched(c), random, wrap)

UpdateWithin(limit) ==
  /\ ~panicked
  /\ cycles < limit
  /\ LET w == IF fetch_panics(Self) THEN instruction ELSE fetched(Self)
     IN  /\ \E random \in Randoms(w), wrap \in Builds(w) :
               \E c \in {update(Self, random, wrap)} : Becomes(c)
         /\ instruction' = w
         /\ last_draw' =
              IF ~fetch_panics(Self) /\ N1(w) = 13
              THEN [ drawn |-> TRUE, display |-> display,
                     x |-> registers[N2(w)] % DISPLAY_WIDTH,
                     y |-> registers[N3(w)] % DISPLAY_HEIGHT ]
              ELSE last_draw
         /\ last_store' =
              IF fetch_panics(Self) \/ panicked' THEN last_store
              ELSE IF N1(w) = 15 /\ N3N4(w) = \h55
              THEN [ stored |-> TRUE, registers |-> registers,
                     index |-> index_register, x |-> N2(w) ]
              ELSE IF N1(w) = 15 /\ N3N4(w) = \h33 THEN blank_store
              ELSE last_store
         /\ calls' =
              IF ~fetch_panics(Self) /\ N1(w) = 2 THEN calls + 1 ELSE calls
         /\ returns' =
              IF ~fetch_panics(Self) /\ ~panicked' /\ w = \h00EE
              THEN returns + 1 ELSE returns
  /\ called' = "update"
  /\ cycles' = cycles + 1

Update == UpdateWithin(MaxCycles)

Draw ==
  /\ ~panicked
  /\ \E c \in {draw(Self)} : Becomes(c)
  /\ called' = "draw"
  /\ UNCHANGED << instruction, cycles, last_draw, last_store, calls, returns >>

Next(keys) == SetKey(keys) \/ Update \/ Draw

NextWithin(keys, limit) == SetKey(keys) \/ UpdateWithin(limit) \/ Draw

SpecKey == InitWith(KeyRoms) /\ [][Next(WaitKeys)]_vars

SpecFont == InitWith(FontRoms) /\ [][Next(OneKey)]_vars

SpecNop == InitWith(NopRoms) /\ [][Next(OneKey)]_vars

SpecTimer == InitWith(TimerRoms) /\ [][Next(OneKey)]_vars

SpecDraw == InitWith(DrawRoms) /\ [][Next(OneKey)]_vars

SpecAdd == InitWith(AddRoms) /\ [][Next(OneKey)]_vars

SpecSub == InitWith(SubRoms) /\ [][Next(OneKey)]_vars

SpecSubn == InitWith(SubnRoms) /\ [][Next(OneKey)]_vars

SpecSkipKey == InitWith(SkipKeyRoms) /\ [][Next(WaitKeys)]_vars

SpecBcd == InitWith(BcdRoms) /\ [][Next(OneKey)]_vars

SpecStoreLoad == InitWith(StoreLoadRoms) /\ [][Next(OneKey)]_vars

SpecRandom == InitWith(RandomRoms) /\ [][Next(OneKey)]_vars

SpecStack ==
  InitWith(StackRoms) /\ [][NextWithin(OneKey, MaxCallCycles)]_vars

SpecMemory == InitWith(MemoryRoms) /\ [][Next(OneKey)]_vars

SpecFlag == InitWith(FlagRoms) /\ [][Next(OneKey)]_vars

\* Every program above.
AllRoms ==
  KeyRoms \cup FontRoms \cup NopRoms \cup TimerRoms \cup DrawRoms
    \cup AddRoms \cup SubRoms \cup SubnRoms \cup SkipKeyRoms \cup BcdRoms
    \cup StoreLoadRoms \cup RandomRoms \cup StackRoms \cup MemoryRoms
    \cup FlagRoms

Init == InitWith(AllRoms)

Spec == Init /\ [][Next(WaitKeys)]_vars

\* ---------------------------------------------------------------- claims

\* This step is an update() whose fetch succeeded; fetched(Self) is the word
\* it executes and pc the address of that word.
UpdateStep ==
  /\ called' = "update"
  /\ cycles' = cycles + 1
  /\ ~fetch_panics(Self)

NoKeyHeld == \A k \in 0 .. 15 : ~input[k]

IsFX0A(w) == N1(w) = 15 /\ N3N4(w) = \h0A
IsFX29(w) == N1(w) = 15 /\ N3N4(w) = \h29

\* C1: while no key is held, an update() that executes FX0A at address A ends
\* with pc = A and changes nothing else.
C1_WaitKeepsPc ==
  [][(UpdateStep /\ IsFX0A(fetched(Self)) /\ NoKeyHeld)
       => /\ pc' = pc
          /\ UNCHANGED << display, memory, stack, registers, index_register,
                          delay_timer, sound_timer, input, panicked >>]_vars

\* C2: with any non-empty set of keys held, an update() that executes FX0A at
\* address A ends with pc = A + 2.
C2_HeldKeyFallsThrough ==
  [][(UpdateStep /\ IsFX0A(fetched(Self)) /\ ~NoKeyHeld)
       => pc' = pc + 2]_vars

\* C3: FX29 sets the index register to the address 0x050 + 5 * (VX AND 0xF)
\* of the glyph of that digit.
C3_FontAddress ==
  [][(UpdateStep /\ IsFX29(fetched(Self)))
       => index_register' =
            FONT_BASE + 5 * BitAnd(registers[N2(fetched(Self))], 15)]_vars

\* The word matches no opcode pattern of the instruction table.
Unlisted(w) ==
  \/ N1(w) = 0 /\ w \notin {\h00E0, \h00EE}
  \/ N1(w) \in {5, 9} /\ N4(w) # 0
  \/ N1(w) = 8 /\ N4(w) \in {8, 9, 10, 11, 12, 13, 15}
  \/ N1(w) = 14 /\ N3N4(w) \notin {\h9E, \hA1}
  \/ N1(w) = 15
       /\ N3N4(w) \notin {\h07, \h15, \h18, \h1E, \h0A, \h29, \h33, \h55, \h65}

\* C4: an update() that fetches a word matching no opcode pattern only
\* advances pc by 2; nothing else changes and no skip is taken.
C4_UnlistedIsNoOp ==
  [][(UpdateStep /\ Unlisted(fetched(Self)))
       => /\ pc' = pc + 2
          /\ UNCHANGED << display, memory, stack, registers, index_register,
                          delay_timer, sound_timer, input, panicked >>]_vars

Max(a, b) == IF a >= b THEN a ELSE b

IsFX15(w) == N1(w) = 15 /\ N3N4(w) = \h15
IsFX18(w) == N1(w) = 15 /\ N3N4(w) = \h18
IsDXYN(w) == N1(w) = 13

\* C5: a frame tick replaces each timer t by max(t - 1, 0), independently,
\* and changes nothing else; both timers stay in 0..255 and a timer at 0
\* stays 0.
C5_TickDecrementsToZero ==
  [][called' = "draw"
       => /\ delay_timer' = Max(delay_timer - 1, 0)
          /\ sound_timer' = Max(sound_timer - 1, 0)
          /\ delay_timer' \in 0 .. 255
          /\ sound_timer' \in 0 .. 255
          /\ UNCHANGED << display, memory, stack, pc, registers,
                          index_register, input, panicked >>]_vars

\* A tick has brought the delay timer set from V0 = 3 down to 0 while the
\* sound timer set from V1 = 2 is already 0.
C5_Witness ==
  /\ called = "draw"
  /\ instruction = \hF118
  /\ registers[0] = 3
  /\ registers[1] = 2
  /\ delay_timer = 0
  /\ sound_timer = 0

\* C6: the delay timer changes in an instruction cycle only when the cycle
\* executes FX15 and the sound timer only when it executes FX18; a timer
\* goes down only in a frame tick, by exactly 1; set_key touches neither.
C6_TimersDecoupled ==
  [][/\ (called' = "update" /\ delay_timer' # delay_timer)
          => (~fetch_panics(Self) /\ IsFX15(fetched(Self)))
     /\ (called' = "update" /\ sound_timer' # sound_timer)
          => (~fetch_panics(Self) /\ IsFX18(fetched(Self)))
     /\ (called' = "draw" /\ delay_timer' # delay_timer)
          => delay_timer' = delay_timer - 1
     /\ (called' = "draw" /\ sound_timer' # sound_timer)
          => sound_timer' = sound_timer - 1
     /\ called' = "set_key"
          => UNCHANGED << delay_timer, sound_timer >>]_vars

\* FX07 has just read a delay timer that a tick has decremented since FX15
\* set it from V0, and the sound timer is still running.
C6_Witness ==
  /\ called = "update"
  /\ instruction = \hF207
  /\ registers[0] = 3
  /\ delay_timer = 2
  /\ registers[2] = 2
  /\ sound_timer > 0

BlankDisplay ==
  [y \in 0 .. DISPLAY_HEIGHT - 1 |-> [x \in 0 .. DISPLAY_WIDTH - 1 |-> FALSE]]

\* C7: 00E0 leaves every framebuffer cell false and changes no register,
\* index register, stack, memory or timer.
C7_ClearBlanksDisplay ==
  [][(UpdateStep /\ fetched(Self) = \h00E0)
       => /\ \A y \in 0 .. DISPLAY_HEIGHT - 1 :
               \A x \in 0 .. DISPLAY_WIDTH - 1 : ~display'[y][x]
          /\ pc' = pc + 2
          /\ UNCHANGED << registers, index_register, stack, memory,
                          delay_timer, sound_timer, input, panicked >>]_vars

\* 00E0 has run after two overlapping draws: VF = 1 is kept and the screen,
\* which held pixels before the last draw, is blank.
C7_Witness ==
  /\ called = "update"
  /\ instruction = \h00E0
  /\ last_draw.drawn
  /\ last_draw.display # BlankDisplay
  /\ last_draw.x = 2
  /\ registers[15] = 1
  /\ display = BlankDisplay

\* This step executes the DXYN that the previous cycle executed, with the
\* same origin (VX mod 64, VY mod 32), and does not panic.
SecondDraw ==
  /\ UpdateStep
  /\ IsDXYN(fetched(Self))
  /\ cycles > 0
  /\ instruction = fetched(Self)
  /\ last_draw.drawn
  /\ last_draw.x = registers[N2(fetched(Self))] % DISPLAY_WIDTH
  /\ last_draw.y = registers[N3(fetched(Self))] % DISPLAY_HEIGHT
  /\ ~panicked'

\* C8 as stated: the second of two identical draws restores the framebuffer
\* and leaves VF = 1.
C8_SecondDrawSetsVF ==
  [][SecondDraw
       => /\ display' = last_draw.display
          /\ registers'[15] = 1]_vars

\* The first of the two draws lit a pixel that was unlit before it.
FirstDrawLit ==
  \E y \in 0 .. DISPLAY_HEIGHT - 1 :
    \E x \in 0 .. DISPLAY_WIDTH - 1 :
      ~last_draw.display[y][x] /\ display[y][x]

\* C8 amended: the second of two identical draws restores the framebuffer,
\* and leaves VF = 1 exactly when the first draw lit at least one pixel that
\* was unlit before it (VF = 0 when the sprite has no set bit on the screen,
\* or when every pixel the first draw flipped was lit before it).
C8_SecondDrawRestores ==
  [][SecondDraw
       => /\ display' = last_draw.display
          /\ registers'[15] = IF FirstDrawLit THEN 1 ELSE 0]_vars

\* The second identical draw has restored a blank screen that the first draw
\* had lit, with VF = 1.
C8_Witness ==
  /\ called = "update"
  /\ IsDXYN(instruction)
  /\ cycles >= 2
  /\ ~panicked
  /\ last_draw.drawn
  /\ last_draw.display # BlankDisplay
  /\ display = BlankDisplay
  /\ registers[15] = 1
  /\ last_draw.x = registers[N2(instruction)] % DISPLAY_WIDTH
  /\ last_draw.y = registers[N3(instruction)] % DISPLAY_HEIGHT

\* The sprite of the DXYN word w, read in the current state, has a set bit
\* for the framebuffer cell (x, y).
SpriteCovers(w, x, y) ==
  LET x0 == registers[N2(w)] % DISPLAY_WIDTH
      y0 == registers[N3(w)] % DISPLAY_HEIGHT
      i == y - y0
      j == x - x0
  IN  /\ i >= 0 /\ i < N4(w)
      /\ j >= 0 /\ j < 8
      /\ Bit(memory[index_register + i], 7 - j) = 1

\* C9: DXYN flips the cell (x0 + j, y0 + i) exactly when bit 7 - j of
\* memory[I + i] is set and the cell is on the screen; every other cell is
\* unchanged (nothing wraps to the opposite edge).
C9_DrawFlipsSpriteBits ==
  [][(UpdateStep /\ IsDXYN(fetched(Self)) /\ ~panicked')
       => \A y \in 0 .. DISPLAY_HEIGHT - 1 :
            \A x \in 0 .. DISPLAY_WIDTH - 1 :
              display'[y][x] =
                (display[y][x] # SpriteCovers(fetched(Self), x, y))]_vars

\* The glyph of digit 0 has been drawn at (0, 0) on a blank screen: exactly
\* the pixels of F0 90 90 90 F0 are lit, and VF = 0.
C9_Witness ==
  /\ called = "update"
  /\ IsDXYN(instruction)
  /\ N4(instruction) = 5
  /\ last_draw.drawn
  /\ last_draw.display = BlankDisplay
  /\ last_draw.x = 0
  /\ last_draw.y = 0
  /\ index_register = FONT_BASE
  /\ registers[15] = 0
  /\ \A y \in 0 .. DISPLAY_HEIGHT - 1 :
       \A x \in 0 .. DISPLAY_WIDTH - 1 :
         display[y][x] = (y < 5 /\ x < 8 /\ Bit(FONT[y + 1], 7 - x) = 1)

\* C10: after DXYN, VF = 1 if a pixel lit before the draw is off after it,
\* and VF = 0 otherwise, whatever VF held before.
C10_CollisionFlag ==
  [][(UpdateStep /\ IsDXYN(fetched(Self)) /\ ~panicked')
       => registers'[15] =
            IF \E y \in 0 .. DISPLAY_HEIGHT - 1 :
                 \E x \in 0 .. DISPLAY_WIDTH - 1 :
                   display[y][x] /\ ~display'[y][x]
            THEN 1 ELSE 0]_vars

\* A draw whose origin register was VF = 5 has lit pixels on a blank screen
\* and left VF = 0.
C10_Witness ==
  /\ called = "update"
  /\ instruction = \hDF25
  /\ last_draw.drawn
  /\ last_draw.x = 5
  /\ last_draw.display = BlankDisplay
  /\ display # BlankDisplay
  /\ registers[15] = 0

Is8XYn(w, n4) == N1(w) = 8 /\ N4(w) = n4

\* The last call was an update() that executed the word `instruction`.
Executed == called = "update" /\ ~panicked

\* C11: for X # F, 8XY4 leaves VX = (VX + VY) mod 256 and VF = 1 when the
\* unreduced sum exceeds 255, 0 otherwise, and changes no other register.
C11_AddWithCarry ==
  [][(UpdateStep /\ Is8XYn(fetched(Self), 4) /\ N2(fetched(Self)) # 15)
       => LET w == fetched(Self)
              sum == registers[N2(w)] + registers[N3(w)]
          IN  registers' =
                [i \in 0 .. 15 |->
                   IF i = N2(w) THEN sum % 256
                   ELSE IF i = 15 THEN (IF sum > 255 THEN 1 ELSE 0)
                   ELSE registers[i]]]_vars

\* 200 + 100 has been added: VX = 44 and VF = 1.
C11_Witness ==
  /\ Executed
  /\ instruction = \h8124
  /\ registers[1] = 44
  /\ registers[2] = 100
  /\ registers[15] = 1

\* C12: for X # F, 8XY5 leaves VX = (VX - VY) mod 256 and VF = 1 when the
\* original VX >= VY, 0 otherwise; a borrow does not fault, and no other
\* register (VY included, when Y is neither X nor F) changes.
C12_SubtractWithBorrow ==
  [][(UpdateStep /\ Is8XYn(fetched(Self), 5) /\ N2(fetched(Self)) # 15)
       => LET w == fetched(Self)
              VX == registers[N2(w)]
              VY == registers[N3(w)]
          IN  /\ ~panicked'
              /\ registers' =
                   [i \in 0 .. 15 |->
                      IF i = N2(w) THEN (VX - VY + U8) % U8
                      ELSE IF i = 15 THEN (IF VX >= VY THEN 1 ELSE 0)
                      ELSE registers[i]]]_vars

\* 5 - 10 has been computed: VX = 251, VF = 0 and VY is still 10.
C12_Witness ==
  /\ Executed
  /\ instruction = \h8125
  /\ registers[1] = 251
  /\ registers[2] = 10
  /\ registers[15] = 0

\* C13: for Y # F and X # Y, 8XY7 writes the difference into VY, not VX:
\* VY = (VY - VX) mod 256, VF = 1 when the original VY >= VX and 0 otherwise,
\* and VX (when X # F) and every other register keep their values.
C13_ReverseSubtractIntoVY ==
  [][(UpdateStep /\ Is8XYn(fetched(Self), 7) /\ N3(fetched(Self)) # 15
        /\ N2(fetched(Self)) # N3(fetched(Self)))
       => LET w == fetched(Self)
              VX == registers[N2(w)]
              VY == registers[N3(w)]
          IN  /\ ~panicked'
              /\ registers' =
                   [i \in 0 .. 15 |->
                      IF i = N3(w) THEN (VY - VX + U8) % U8
                      ELSE IF i = 15 THEN (IF VY >= VX THEN 1 ELSE 0)
                      ELSE registers[i]]]_vars

\* 8127 with V1 = 10 and V2 = 5 has been executed: V2 = 251, V1 is still 10.
C13_Witness ==
  /\ Executed
  /\ instruction = \h8127
  /\ registers[1] = 10
  /\ registers[2] = 251
  /\ registers[15] = 0

IsEX9E(w) == N1(w) = 14 /\ N3N4(w) = \h9E
IsEXA1(w) == N1(w) = 14 /\ N3N4(w) = \hA1

\* C14: for every X and every VX in 0..255, an update() executing EX9E
\* completes and advances pc by 4 when key VX is held and by 2 otherwise, one
\* executing EXA1 by 4 when key VX is released and by 2 otherwise; neither
\* changes the input latch or any other state. (A byte above 15 names no key:
\* for it the formula only asks that the cycle completes with pc advanced by
\* 2 or 4.)
C14_KeySkipsComplete ==
  [][(UpdateStep /\ (IsEX9E(fetched(Self)) \/ IsEXA1(fetched(Self))))
       => LET w == fetched(Self)
              key == registers[N2(w)]
              held == key < 16 /\ input[key]
              skips == IF IsEX9E(w) THEN held ELSE ~held
          IN  /\ ~panicked'
              /\ IF key < 16
                 THEN pc' = pc + (IF skips THEN 4 ELSE 2)
                 ELSE pc' \in {pc + 2, pc + 4}
              /\ UNCHANGED << display, memory, stack, registers,
                              index_register, delay_timer, sound_timer,
                              input >>]_vars

IsFX33(w) == N1(w) = 15 /\ N3N4(w) = \h33

\* C15: for every v in 0..255 and index register A with A + 2 < 4096, FX33
\* stores three decimal digits at memory[A..A+2], each in 0..9, with
\* 100 * memory[A] + 10 * memory[A+1] + memory[A+2] = v; every other memory
\* byte, every register and the index register are unchanged.
C15_DecimalDigits ==
  [][(UpdateStep /\ IsFX33(fetched(Self)) /\ index_register + 2 < MEMORY_SIZE)
       => LET v == registers[N2(fetched(Self))]
              A == index_register
          IN  /\ ~panicked'
              /\ \A i \in 0 .. 2 : memory'[A + i] \in 0 .. 9
              /\ 100 * memory'[A] + 10 * memory'[A + 1] + memory'[A + 2] = v
              /\ memory' = [memory EXCEPT ![A] = memory'[A],
                                          ![A + 1] = memory'[A + 1],
                                          ![A + 2] = memory'[A + 2]]
              /\ UNCHANGED << registers, index_register >>]_vars

\* 157 has been converted at the last three bytes of memory.
C15_Witness ==
  /\ Executed
  /\ instruction = \hFF33
  /\ index_register = \hFFD
  /\ registers[15] = 157
  /\ memory[\hFFD] = 1 /\ memory[\hFFE] = 5 /\ memory[\hFFF] = 7

IsFX55(w) == N1(w) = 15 /\ N3N4(w) = \h55
IsFX65(w) == N1(w) = 15 /\ N3N4(w) = \h65

\* C16: with index register A and A + X < 4096, FX55 copies V0..VX into
\* memory[A..A+X] and leaves the registers and the index register unchanged;
\* and an FX65 with the same X, executed with the index register still A
\* after only registers have been overwritten, leaves V0..VX equal to their
\* values at the time of the FX55 and the registers above VX untouched.
C16_StoreLoadRoundTrip ==
  [][/\ (UpdateStep /\ IsFX55(fetched(Self))
           /\ index_register + N2(fetched(Self)) < MEMORY_SIZE)
          => /\ ~panicked'
             /\ \A i \in 0 .. N2(fetched(Self)) :
                  memory'[index_register + i] = registers[i]
             /\ UNCHANGED << registers, index_register >>
     /\ (UpdateStep /\ IsFX65(fetched(Self))
           /\ index_register + N2(fetched(Self)) < MEMORY_SIZE
           /\ last_store.stored
           /\ last_store.x = N2(fetched(Self))
           /\ last_store.index = index_register)
          => /\ ~panicked'
             /\ \A i \in 0 .. 15 :
                  registers'[i] = IF i <= N2(fetched(Self))
                                  THEN last_store.registers[i]
                                  ELSE registers[i]
             /\ UNCHANGED index_register]_vars

\* FF65 has restored V0 = VF = 255 from the last sixteen bytes of memory
\* after both had been overwritten with 9.
C16_Witness ==
  /\ Executed
  /\ instruction = \hFF65
  /\ last_store.stored
  /\ last_store.index = \hFF0
  /\ last_store.registers[15] = 255
  /\ registers[0] = 255 /\ registers[15] = 255
  /\ memory[\hFFF] = 255

IsCXNN(w) == N1(w) = 12

\* C17: after CXNN, VX = r AND NN for some r in 0..15, so VX <= 15 and VX has
\* no bit that is clear in NN; every value r AND NN with r in 0..15 is a
\* possible outcome; no other register changes.
C17_RandomNibbleMasked ==
  [][(UpdateStep /\ IsCXNN(fetched(Self)))
       => LET x == N2(fetched(Self))
              nn == N3N4(fetched(Self))
          IN  /\ \E r \in 0 .. 15 :
                   registers' = [registers EXCEPT ![x] = BitAnd(r, nn)]
              /\ registers'[x] <= 15
              /\ BitAnd(registers'[x], nn) = registers'[x]
              /\ \A r \in 0 .. 15 :
                   ENABLED (Update /\ registers'[x] = BitAnd(r, nn))]_vars

\* CFA5 has drawn 5: of the sixteen nibbles, one of 5, 7, 13 and 15.
C17_Witness ==
  /\ Executed
  /\ instruction = \hCFA5
  /\ registers[15] = 5

Is2NNN(w) == N1(w) = 2
Is00EE(w) == w = \h00EE

\* C18: the call stack is last-in-first-out: 2NNN at address A pushes A + 2
\* and sets pc = NNN; 00EE with a non-empty stack removes the most recently
\* pushed address not yet popped and sets pc to it; the depth of the stack is
\* the number of 2NNN executed minus the number of 00EE executed, with no
\* upper bound enforced on it.
C18_CallStackIsLifo ==
  [][UpdateStep
       => LET w == fetched(Self)
          IN  /\ Is2NNN(w)
                   => /\ ~panicked'
                      /\ stack' = Append(stack, pc + 2)
                      /\ pc' = N2N3N4(w)
              /\ (Is00EE(w) /\ stack # << >>)
                   => /\ ~panicked'
                      /\ pc' = stack[Len(stack)]
                      /\ stack' = SubSeq(stack, 1, Len(stack) - 1)
              /\ Len(stack') = calls' - returns']_vars

\* Seventeen nested calls have been made and the first 00EE has returned to
\* the address pushed last, leaving the sixteen pushed before it.
C18_Witness ==
  /\ Executed
  /\ instruction = \h00EE
  /\ calls = 17
  /\ returns = 1
  /\ pc = \h222
  /\ Len(stack) = 16
  /\ stack[16] = \h220
  /\ stack[1] = \h202

\* The memory addresses the next update() of machine c reads or writes: the
\* two bytes of the fetch and, when the fetch succeeds, the sprite rows of
\* DXYN (rows are read while y + i <= DISPLAY_HEIGHT), the three digits of
\* FX33 and the X + 1 bytes of FX55 and FX65.
Accesses(c) ==
  {c.pc, c.pc + 1}
    \cup IF fetch_panics(c) THEN {}
         ELSE LET w == fetched(c)
                  I == c.index_register
                  y == c.registers[N3(w)] % DISPLAY_HEIGHT
              IN  IF IsDXYN(w)
                  THEN { I + i : i \in { k \in 0 .. N4(w) - 1 :
                                           y + k <= DISPLAY_HEIGHT } }
                  ELSE IF IsFX33(w) THEN I .. I + 2
                  ELSE IF IsFX55(w) \/ IsFX65(w) THEN I .. I + N2(w)
                  ELSE {}

\* C19: in every state reachable from the constructed machine by update()
\* cycles of any program, every memory access of the next cycle (the fetch at
\* pc and pc + 1, sprite rows, decimal digits, register store and load) uses
\* an address below 4096.
C19_AccessesInRange ==
  ~panicked => \A a \in Accesses(Self) : a < MEMORY_SIZE

\* The flag an 8XYn opcode reports, from the registers before it executes:
\* carry, no borrow, the bit shifted out.
Flag(w) ==
  LET VX == registers[N2(w)]
      VY == registers[N3(w)]
  IN  CASE N4(w) = 4 -> IF VX + VY > 255 THEN 1 ELSE 0
        [] N4(w) = 5 -> IF VX >= VY THEN 1 ELSE 0
        [] N4(w) = 6 -> VX % 2
        [] N4(w) = 7 -> IF VY >= VX THEN 1 ELSE 0
        [] N4(w) = 14 -> VX \div 128

\* C20: immediately after 8XY4, 8XY5, 8XY6, 8XY7 or 8XYE, VF holds the flag,
\* a value in {0, 1}, for every X and Y, VF as the destination included: the
\* arithmetic result never overwrites the flag.
C20_FlagSurvivesAliasing ==
  [][(UpdateStep /\ N1(fetched(Self)) = 8
        /\ N4(fetched(Self)) \in {4, 5, 6, 7, 14})
       => /\ registers'[15] \in {0, 1}
          /\ registers'[15] = Flag(fetched(Self))]_vars

====
